---- MODULE Spec2Model ----
(***************************************************************************)
(* Verification model of Spotify-Podcast-Finder: the filter of run_search, *)
(* the upsert/commit behaviour of run_search on the shared SQLite          *)
(* connection, the pagination loop of SpotifyClient.search_episodes and    *)
(* the chunk loop of SpotifyClient.get_episodes.                           *)
(*                                                                         *)
(* Text values are sequences of one-character strings.                     *)
(***************************************************************************)
EXTENDS Integers, Sequences, FiniteSets, TLC

VARIABLES
    \* --- filter evaluation (run_search, lines 282-509) ---
    fquery,      \* the six pattern lists of the query being evaluated
    fitem,       \* the metadata of the candidate item
    fresult,     \* "none" | "accepted" | "skipped"
    \* --- store and runs (run_search on the cached connection) ---
    episodes,    \* rows of table episodes as seen by the connection
    search_runs, \* rows of table search_runs as seen by the connection
    queries,     \* rows of table search_queries as seen by the connection
    durable,     \* the committed content of the three tables
    clock,       \* wall clock in seconds (utcnow_iso)
    run,         \* per query: the position and locals of its run_search call
    lastOk,      \* per query: the result set of its last successful run
    nruns,       \* number of run_search calls started so far
    \* --- paginated fetcher (SpotifyClient.search_episodes) ---
    sLimitArg,   \* the limit argument
    sLimit,      \* the clamped page size
    sMaxPages,   \* max_pages (NoCap for None)
    sTotal,      \* the total the provider reports
    sCatalog,    \* number of items the provider really has
    offset,
    pages_retrieved,
    yielded,     \* sequence of provider positions yielded so far
    spc,         \* "idle" | "running" | "done" | "api_error" | "auth_error"
    sRequests,   \* number of search requests issued
    sRateLimited, \* number of 429 answers received
    sFull,       \* every 200 answer so far carried a full page up to sTotal
    sLast,       \* requests and token exchanges of the latest iteration
    token,       \* self._token is set
    token_expires_at,
    time,        \* time.time()
    \* --- batch detail fetcher (SpotifyClient.get_episodes) ---
    dpc,         \* "idle" | "start" | "running" | "done" | "api_error" | "auth_error"
    dIds,        \* number of identifiers to resolve
    dStart,      \* start of the current chunk
    dResults,    \* results: the identifiers whose records were returned
    dSent,       \* the chunks sent so far: first and last identifier of each
    dNulls,      \* the identifiers the provider has answered with null
    \* --- stored query definitions (create/get/list/update_search_query) ---
    qrow,        \* the row of table search_queries: its six list columns
    qread        \* outcome of the latest operation that reads the row back

fvars == <<fquery, fitem, fresult>>
dvars == <<episodes, search_runs, queries, durable, clock, run, lastOk, nruns>>
pvars == <<sLimitArg, sLimit, sMaxPages, sTotal, sCatalog, offset,
           pages_retrieved, yielded, spc, sRateLimited, sFull>>
svars == <<pvars, sRequests, sLast, token, token_expires_at, time>>
cvars == <<dpc, dIds, dStart, dResults, dSent, dNulls>>
qvars == <<qrow, qread>>
vars == <<fvars, dvars, svars, cvars, qvars>>

(***************************************************************************)
(* Text helpers                                                            *)
(***************************************************************************)
Max(a, b) == IF a >= b THEN a ELSE b
Min(a, b) == IF a <= b THEN a ELSE b

\* str.lower() on the characters of the model alphabet
LowerChar(c) ==
    CASE c = "A" -> "a"
      [] c = "B" -> "b"
      [] OTHER   -> c

Lower(s) == [i \in 1..Len(s) |-> LowerChar(s[i])]

\* str.strip()
RECURSIVE Strip(_)
Strip(s) ==
    IF s = <<>> THEN s
    ELSE IF Head(s) = " " THEN Strip(Tail(s))
    ELSE IF s[Len(s)] = " " THEN Strip(SubSeq(s, 1, Len(s) - 1))
    ELSE s

\* `sub in text`
Contains(text, sub) ==
    \E i \in 1..(Len(text) + 1) :
        /\ i + Len(sub) - 1 <= Len(text)
        /\ SubSeq(text, i, i + Len(sub) - 1) = sub

\* fnmatch.translate: position of the "]" closing the class opened at j, or 0
RECURSIVE ScanClass(_, _)
ScanClass(p, k) ==
    IF k > Len(p) THEN 0
    ELSE IF p[k] = "]" THEN k
    ELSE ScanClass(p, k + 1)

ClassEnd(p, j) ==
    LET k0 == j + 1
        k1 == IF k0 <= Len(p) /\ p[k0] = "!" THEN k0 + 1 ELSE k0
        k2 == IF k1 <= Len(p) /\ p[k1] = "]" THEN k1 + 1 ELSE k1
    IN  ScanClass(p, k2)

\* fnmatch.fnmatch(name, pat): whole-string shell wildcard match
RECURSIVE GlobFrom(_, _, _, _)
GlobFrom(s, i, p, j) ==
    IF j > Len(p) THEN i > Len(s)
    ELSE IF p[j] = "*" THEN
        \/ GlobFrom(s, i, p, j + 1)
        \/ (i <= Len(s) /\ GlobFrom(s, i + 1, p, j))
    ELSE IF p[j] = "?" THEN
        i <= Len(s) /\ GlobFrom(s, i + 1, p, j + 1)
    ELSE IF p[j] = "[" /\ ClassEnd(p, j) # 0 THEN
        LET e   == ClassEnd(p, j)
            neg == p[j + 1] = "!"
            lo  == IF neg THEN j + 2 ELSE j + 1
            cls == {p[k] : k \in lo..(e - 1)}
        IN  /\ i <= Len(s)
            /\ (s[i] \in cls) # neg
            /\ GlobFrom(s, i + 1, p, e + 1)
    ELSE
        i <= Len(s) /\ s[i] = p[j] /\ GlobFrom(s, i + 1, p, j + 1)

fnmatch(name, pat) == GlobFrom(name, 1, pat, 1)

(***************************************************************************)
(* Regular expressions over the alphabet of the model: letters, "/", the   *)
(* anchors "^" "$", the wildcard ".", the repeat "*" and the openers "("   *)
(* and "[" (never closed, the alphabet has no ")" and regex bodies no "]").*)
(***************************************************************************)
\* re.compile(body) succeeds
RegexCompiles(body) ==
    /\ \A i \in 1..Len(body) : body[i] \notin {"(", "[", "?", "]"}
    /\ \A i \in 1..Len(body) :
          body[i] = "*" => (i > 1 /\ body[i - 1] \notin {"*", "^", "$"})

\* rx.match at position j of s, flags=re.IGNORECASE
RECURSIVE RegexFrom(_, _, _, _)
RegexFrom(body, i, s, j) ==
    IF i > Len(body) THEN TRUE
    ELSE
        LET atom == body[i]
            hit  == j <= Len(s)
                    /\ (atom = "." \/ LowerChar(atom) = LowerChar(s[j]))
        IN  IF i < Len(body) /\ body[i + 1] = "*" THEN
                \/ RegexFrom(body, i + 2, s, j)
                \/ (hit /\ RegexFrom(body, i, s, j + 1))
            ELSE IF atom = "^" THEN j = 1 /\ RegexFrom(body, i + 1, s, j)
            ELSE IF atom = "$" THEN j = Len(s) + 1 /\ RegexFrom(body, i + 1, s, j)
            ELSE hit /\ RegexFrom(body, i + 1, s, j + 1)

\* rx.search(s)
RegexSearch(body, s) == \E j \in 1..(Len(s) + 1) : RegexFrom(body, 1, s, j)

(***************************************************************************)
(* Pattern compilation (run_search, lines 283-387)                         *)
(***************************************************************************)
NoRegex == <<"None">>

_has_wildcards(pattern) ==
    \E i \in 1..Len(pattern) : pattern[i] \in {"*", "?", "["}

\* the body of the compiled pattern, or NoRegex
_compile_regex(pattern) ==
    IF Len(pattern) >= 2 /\ pattern[1] = "/" /\ pattern[Len(pattern)] = "/"
    THEN LET body == SubSeq(pattern, 2, Len(pattern) - 1)
         IN  IF RegexCompiles(body) THEN body ELSE NoRegex
    ELSE NoRegex

\* the loop that sorts one pattern list into its three collections
CompileList(raws) ==
    LET pats == {Strip(raws[i]) : i \in 1..Len(raws)} \ {<<>>}
    IN  [regexes |-> {_compile_regex(p) : p \in pats} \ {NoRegex},
         globs   |-> {Lower(p) : p \in {x \in pats :
                         _compile_regex(x) = NoRegex /\ _has_wildcards(x)}},
         exact   |-> {Lower(p) : p \in {x \in pats :
                         _compile_regex(x) = NoRegex /\ ~_has_wildcards(x)}}]

NonEmptyCompiled(c) == c.exact # {} \/ c.globs # {} \/ c.regexes # {}

ShowMatch_substring(c, show_name) ==
    \/ \E e \in c.exact : Contains(Lower(show_name), e)
    \/ \E g \in c.globs : fnmatch(Lower(show_name), g)
    \/ \E rx \in c.regexes : RegexSearch(rx, show_name)

\* show categories: exact membership, then globs, then regexes
ShowMatch(c, show_name) ==
    \/ Lower(show_name) \in c.exact
    \/ \E g \in c.globs : fnmatch(Lower(show_name), g)
    \/ \E rx \in c.regexes : RegexSearch(rx, show_name)

\* title and description categories: substring, then globs, then regexes
TextMatch(c, text) ==
    \/ \E substr \in c.exact : Contains(Lower(text), substr)
    \/ \E g \in c.globs : fnmatch(Lower(text), g)
    \/ \E rx \in c.regexes : RegexSearch(rx, text)

\* the title exclusion forgets the glob and regex collections
title_skip_substr_only(q, item) ==
    \E substr \in CompileList(q.exclude_title_keywords).exact :
        Contains(Lower(item.name), substr)

show_skip(q, item)  == ShowMatch(CompileList(q.exclude_shows), item.show_name)
title_skip(q, item) == TextMatch(CompileList(q.exclude_title_keywords), item.name)
desc_skip(q, item)  ==
    TextMatch(CompileList(q.exclude_description_keywords), item.description)

\* the show include list never vetoes
include_show_ok_ignored(q, item) == TRUE

include_show_ok(q, item) ==
    LET c == CompileList(q.include_shows)
    IN  NonEmptyCompiled(c) => ShowMatch(c, item.show_name)

\* the title include list vetoes even when it is empty
include_title_ok_strict(q, item) ==
    TextMatch(CompileList(q.include_title_keywords), item.name)

include_title_ok(q, item) ==
    LET c == CompileList(q.include_title_keywords)
    IN  NonEmptyCompiled(c) => TextMatch(c, item.name)

include_desc_ok(q, item) ==
    LET c == CompileList(q.include_description_keywords)
    IN  NonEmptyCompiled(c) => TextMatch(c, item.description)

\* TRUE when the item reaches `processed += 1`, FALSE when `skipped += 1`
FilterAccepts(q, item) ==
    IF show_skip(q, item) THEN FALSE
    ELSE IF title_skip(q, item) THEN FALSE
    ELSE IF desc_skip(q, item) THEN FALSE
    ELSE IF ~include_show_ok(q, item) THEN FALSE
    ELSE IF ~include_title_ok(q, item) THEN FALSE
    ELSE include_desc_ok(q, item)

(***************************************************************************)
(* Filter evaluation as a state machine: a query's pattern lists are built *)
(* up pattern by pattern and the filter of run_search is applied to one    *)
(* candidate item.                                                         *)
(***************************************************************************)
Categories == {"exclude_shows", "exclude_title_keywords",
               "exclude_description_keywords", "include_shows",
               "include_title_keywords", "include_description_keywords"}

MaxPatterns == 2

\* "Ab", "a*", "/b$/", "/(/" and "/*/"
PatternPool == { <<"A", "b">>,
                 <<"a", "*">>,
                 <<"/", "b", "$", "/">>,
                 <<"/", "(", "/">>,
                 <<"/", "*", "/">> }

NoPatterns == [c \in Categories |-> <<>>]

MkItem(show, title, desc) ==
    [show_name |-> show, name |-> title, description |-> desc]

Items == { MkItem(<<"A", "B">>, <<"a", "a", "b">>, <<>>),
           MkItem(<<"a", "a", "b">>, <<"A", "B">>, <<"/", "(", "/">>),
           MkItem(<<"/", "(", "/">>, <<"/", "(", "/">>, <<"A", "B">>),
           MkItem(<<>>, <<>>, <<>>),
           MkItem(<<"b">>, <<"a", "/", "(", "/">>, <<"a", "a", "b">>) }

RECURSIVE SumLen(_, _)
SumLen(q, cats) ==
    IF cats = {} THEN 0
    ELSE LET c == CHOOSE x \in cats : TRUE
         IN  Len(q[c]) + SumLen(q, cats \ {c})

TotalPatterns(q) == SumLen(q, Categories)

FilterInit ==
    /\ fquery = NoPatterns
    /\ fitem \in Items
    /\ fresult = "none"

\* one more pattern in one of the six lists of the query
AddPattern ==
    \E c \in Categories, p \in PatternPool :
        /\ TotalPatterns(fquery) < MaxPatterns
        /\ fquery' = [fquery EXCEPT ![c] = Append(@, p)]
        /\ fresult' = "none"
        /\ UNCHANGED fitem
        /\ UNCHANGED <<dvars, svars, cvars, qvars>>

\* the filter section of the per-item loop of run_search
Evaluate ==
    /\ fresult = "none"
    /\ fresult' = IF FilterAccepts(fquery, fitem) THEN "accepted" ELSE "skipped"
    /\ UNCHANGED <<fquery, fitem>>
    /\ UNCHANGED <<dvars, svars, cvars, qvars>>

(***************************************************************************)
(* Stored query definitions.  The six pattern lists of a query are kept as *)
(* JSON array text in six columns of its row; a column is modelled by the  *)
(* array its text denotes (json.dumps followed by json.loads gives the     *)
(* array back), so what is modelled is the cleaning done on the way in and *)
(* on the way out, and the construction of the SearchQuery object.         *)
(***************************************************************************)
NoList == <<"None">>

\* raw arguments: None, [" a "] and ["", "b "]
RawLists == { NoList,
              << <<" ", "a", " ">> >>,
              << <<>>, <<"b", " ">> >> }

\* [str(item).strip() for item in values if str(item).strip()]
Cleaned(values) ==
    SelectSeq([i \in 1..Len(values) |-> Strip(values[i])],
              LAMBDA x : x # <<>>)

_serialize_list(values) ==
    IF values = NoList \/ values = <<>> THEN <<>> ELSE Cleaned(values)

_deserialize_list(value) == Cleaned(value)

\* the fields the dataclass declares
SearchQueryFields == {"id", "term", "frequency", "exclude_shows",
                      "exclude_title_keywords", "created_at", "updated_at",
                      "last_run"}

\* the keyword arguments _row_to_search_query passes to SearchQuery
RowKeywords == {"id", "term", "frequency", "created_at", "updated_at",
                "last_run"} \cup Categories

NoRow == [present |-> FALSE, cols |-> NoPatterns]

NotRead == [op |-> "none", status |-> "none", lists |-> NoPatterns]

\* a dataclass constructor rejects a keyword that is not one of its fields
_row_to_search_query(row) ==
    IF RowKeywords \subseteq SearchQueryFields
    THEN [status |-> "ok",
          lists |-> [c \in Categories |-> _deserialize_list(row.cols[c])]]
    ELSE [status |-> "TypeError", lists |-> NoPatterns]

get_search_query(row) ==
    IF ~row.present
    THEN [status |-> "LookupError", lists |-> NoPatterns]
    ELSE _row_to_search_query(row)

ReadBy(op, row) ==
    LET r == get_search_query(row)
    IN  [op |-> op, status |-> r.status, lists |-> r.lists]

QueryInit == qrow = NoRow /\ qread = NotRead

\* the row is inserted and committed, then read back
create_search_query ==
    \E args \in [Categories -> RawLists] :
        /\ ~qrow.present
        /\ qrow' = [present |-> TRUE,
                    cols |-> [c \in Categories |-> _serialize_list(args[c])]]
        /\ qread' = ReadBy("create", qrow')
        /\ UNCHANGED <<fvars, dvars, svars, cvars>>

GetQuery ==
    /\ qread' = ReadBy("get", qrow)
    /\ UNCHANGED qrow
    /\ UNCHANGED <<fvars, dvars, svars, cvars>>

\* [_row_to_search_query(row) for row in cursor.fetchall()]
list_search_queries ==
    /\ qread' = IF qrow.present THEN ReadBy("list", qrow)
                ELSE [op |-> "list", status |-> "ok", lists |-> NoPatterns]
    /\ UNCHANGED qrow
    /\ UNCHANGED <<fvars, dvars, svars, cvars>>

\* the query is read first; a list that is not given keeps its stored value
update_search_query ==
    \E c \in Categories, v \in RawLists :
        LET query == get_search_query(qrow)
            cols == [d \in Categories |->
                        IF d = c /\ v # NoList THEN _serialize_list(v)
                        ELSE _serialize_list(query.lists[d])]
        IN  /\ qrow' = IF query.status = "ok"
                       THEN [present |-> TRUE, cols |-> cols]
                       ELSE qrow
            /\ qread' = ReadBy("update", qrow')
            /\ UNCHANGED <<fvars, dvars, svars, cvars>>

(***************************************************************************)
(* The store and run_search.  The application keeps ONE connection         *)
(* (_get_cached_connection) for its whole life; statements executed on it  *)
(* join the connection's open transaction until somebody commits.  The     *)
(* variables episodes, search_runs and queries are the tables as the       *)
(* connection sees them, durable is what has been committed.               *)
(***************************************************************************)
MaxHits == 2
MaxClock == 1
MaxRuns == 2

QueryIds == {1, 2}
EpisodeIds == {"e1", "e2"}
NoId == "none"
NoDetail == <<"None">>
NoTime == -1

\* the stored pattern lists: query 1 has no filters, the others exclude
\* titles matching the glob "a*"
QueryFilters ==
    [q \in QueryIds |->
        IF q = 1 THEN NoPatterns
        ELSE [NoPatterns EXCEPT !["exclude_title_keywords"] = << <<"a", "*">> >>]]

NoName == <<"None">>

\* simplified episode objects the search endpoint can return: an episode
\* under its short title, an episode without a name, or an object without
\* identifier
Hits == { [id |-> "e1", name |-> <<"b">>],
          [id |-> "e2", name |-> NoName],
          [id |-> NoId, name |-> <<"b">>] }

RECURSIVE SeqsUpTo(_, _)
SeqsUpTo(S, n) ==
    IF n = 0 THEN {<<>>}
    ELSE LET shorter == SeqsUpTo(S, n - 1)
         IN  shorter \cup {Append(t, x) : t \in shorter, x \in S}

HitSeqs == SeqsUpTo(Hits, MaxHits)

\* the full object of an episode carries its full title
FullName(eid) == IF eid = "e1" THEN <<"a", "b">> ELSE <<"b">>

\* candidate_ids: the identifiers of the simplified items that have one
CandidateIds(hits) == {hits[i].id : i \in 1..Len(hits)} \ {NoId}

\* full_items_by_id: what the episodes endpoint answers for the identifiers
\* it is asked about, the full object or null
DetailMaps(ids) ==
    {[e \in EpisodeIds |-> IF e \in avail THEN FullName(e) ELSE NoDetail]
        : avail \in SUBSET ids}

NoDetails == [e \in EpisodeIds |-> NoDetail]

\* the search hit is used even when a detail record was returned
Resolve_hits_only(hits, details) == hits

\* source = full_item or raw_episode, for every simplified item in order
Resolve(hits, details) ==
    [i \in 1..Len(hits) |->
        IF hits[i].id # NoId /\ details[hits[i].id] # NoDetail
        THEN [id |-> hits[i].id, name |-> details[hits[i].id]]
        ELSE hits[i]]

\* metadata.get("name") or ""
Coerced(value) == IF value = NoName THEN <<>> ELSE value

\* extract_episode_metadata and the coercions of lines 423-425; the objects
\* carry no show and no description
Metadata(source) == MkItem(Coerced(NoName), Coerced(source.name), Coerced(NoName))

HasId_always(source) == TRUE

\* if not episode_id: continue
HasId(source) == source.id # NoId

Tables == [episodes |-> episodes, search_runs |-> search_runs, queries |-> queries]

\* the rows of one query in a copy of the tables
RowsOf(t, q) ==
    [episodes    |-> {r \in t.episodes : r.query_id = q},
     search_runs |-> {r \in t.search_runs : r.query_id = q},
     query       |-> t.queries[q]]

NextId(rows) ==
    IF rows = {} THEN 1
    ELSE 1 + (CHOOSE m \in {r.id : r \in rows} : \A r \in rows : r.id <= m)

\* the count is taken over the whole table
_count_all_episodes(rows, q) == Cardinality(rows)

\* SELECT COUNT(*) FROM episodes WHERE query_id = ?
_count_episodes_for_query(rows, q) == Cardinality({r \in rows : r.query_id = q})

\* SELECT id FROM episodes WHERE query_id = ? AND episode_id = ?
ExistingRows(rows, q, eid) ==
    {r \in rows : r.query_id = q /\ r.episode_id = eid}

\* the UPDATE leaves last_seen_at alone
UpdateEpisode_stale(rows, id, name, now) ==
    {IF r.id = id THEN [r EXCEPT !.name = name] ELSE r : r \in rows}

\* UPDATE episodes SET name = ?, ..., last_seen_at = ? WHERE id = ?
UpdateEpisode(rows, id, name, now) ==
    {IF r.id = id THEN [r EXCEPT !.name = name, !.last_seen_at = now] ELSE r
        : r \in rows}

\* UNIQUE(query_id, episode_id) of table episodes
UniqueViolation(rows, q, eid) ==
    \E r \in rows : r.query_id = q /\ r.episode_id = eid

\* the INSERT binds the timestamps of a row in the wrong order
InsertEpisode_swapped(rows, q, eid, name, now) ==
    rows \cup {[id |-> NextId(rows), query_id |-> q, episode_id |-> eid,
                name |-> name, first_seen_at |-> now, last_seen_at |-> 0]}

\* INSERT INTO episodes (...) VALUES (...)
InsertEpisode(rows, q, eid, name, now) ==
    rows \cup {[id |-> NextId(rows), query_id |-> q, episode_id |-> eid,
                name |-> name, first_seen_at |-> now, last_seen_at |-> now]}

\* no lookup and no uniqueness: every accepted item is inserted
Upsert_blind(rows, q, eid, name, now) ==
    [ok |-> TRUE, isNew |-> TRUE, rows |-> InsertEpisode(rows, q, eid, name, now)]

\* the UPDATE branch also overwrites first_seen_at
Upsert_refresh_first(rows, q, eid, name, now) ==
    LET existing == ExistingRows(rows, q, eid)
    IN  IF existing # {}
        THEN [ok |-> TRUE, isNew |-> FALSE,
              rows |-> {IF r \in existing
                        THEN [r EXCEPT !.name = name, !.first_seen_at = now,
                                       !.last_seen_at = now]
                        ELSE r : r \in rows}]
        ELSE [ok |-> TRUE, isNew |-> TRUE,
              rows |-> InsertEpisode(rows, q, eid, name, now)]

\* lines 512-589: result of the upsert of one accepted item
Upsert(rows, q, eid, name, now) ==
    LET existing == ExistingRows(rows, q, eid)
    IN  IF existing # {}
        THEN [ok |-> TRUE, isNew |-> FALSE,
              rows |-> UpdateEpisode(rows, (CHOOSE r \in existing : TRUE).id,
                                     name, now)]
        ELSE IF UniqueViolation(rows, q, eid)
        THEN [ok |-> FALSE, isNew |-> FALSE, rows |-> rows]
        ELSE [ok |-> TRUE, isNew |-> TRUE,
              rows |-> InsertEpisode(rows, q, eid, name, now)]

IdleRun ==
    [pc |-> "idle", now_iso |-> NoTime, hits |-> <<>>, details |-> NoDetails,
     items |-> <<>>, idx |-> 0,
     processed |-> 0, skipped |-> 0, new_episodes |-> <<>>,
     previous_count |-> 0, current_count |-> 0, error |-> "none",
     startFirstSeen |-> {},
     startDurable |-> [episodes |-> {}, search_runs |-> {},
                       query |-> [present |-> TRUE, last_run |-> NoTime,
                                  updated_at |-> 0]],
     repeat |-> FALSE]

\* an exception leaves run_search: its locals are gone, the caller sees the
\* error
Failed(r, e) ==
    [IdleRun EXCEPT !.pc = "failed", !.error = e, !.now_iso = r.now_iso,
                    !.startDurable = r.startDurable]

StoreInit ==
    /\ episodes = {}
    /\ search_runs = {}
    /\ queries = [q \in QueryIds |->
                      [present |-> TRUE, last_run |-> NoTime, updated_at |-> 0]]
    /\ durable = [episodes |-> {}, search_runs |-> {},
                  queries |-> [q \in QueryIds |->
                                  [present |-> TRUE, last_run |-> NoTime,
                                   updated_at |-> 0]]]
    /\ clock = 0
    /\ run = [q \in QueryIds |-> IdleRun]
    /\ lastOk = [q \in QueryIds |-> [ran |-> FALSE, items |-> <<>>]]
    /\ nruns = 0

\* the application calls run_search for one query at a time (the loop over
\* due_queries, the single-query form)
NoRunInFlight == \A p \in QueryIds : run[p].pc \in {"idle", "done", "failed"}

\* list_search_queries: initialize_db commits whatever the connection has
\* pending, then the queries are read
ListQueries ==
    /\ NoRunInFlight
    /\ durable # Tables
    /\ durable' = Tables
    /\ UNCHANGED <<episodes, search_runs, queries, clock, run, lastOk, nruns>>
    /\ UNCHANGED <<fvars, svars, cvars, qvars>>

\* the connection was opened without PRAGMA foreign_keys = ON
Cascade_off(rows, q) == rows

\* FOREIGN KEY(query_id) REFERENCES search_queries(id) ON DELETE CASCADE, in
\* force on every connection made by get_connection
Cascade(rows, q) == {r \in rows : r.query_id # q}

\* delete_search_query: initialize_db commits whatever the connection has
\* pending, the DELETE removes the query row and, by cascade, its episodes
\* and run records, and the commit makes it durable
DeleteQuery(q) ==
    LET eps  == Cascade(episodes, q)
        runs == Cascade(search_runs, q)
        qs   == [queries EXCEPT ![q].present = FALSE]
    IN  /\ NoRunInFlight
        /\ queries[q].present
        /\ episodes' = eps
        /\ search_runs' = runs
        /\ queries' = qs
        /\ durable' = [episodes |-> eps, search_runs |-> runs, queries |-> qs]
        /\ UNCHANGED <<clock, run, lastOk, nruns>>
        /\ UNCHANGED <<fvars, svars, cvars, qvars>>

\* run_search, lines 278-280: initialize_db commits whatever the connection
\* has pending, then the count and the run timestamp are taken
RunBegin(q) ==
    /\ queries[q].present
    /\ nruns < MaxRuns
    /\ \E t \in clock..MaxClock :
        /\ clock' = t
        /\ durable' = Tables
        /\ run' = [run EXCEPT ![q] =
                [IdleRun EXCEPT
                    !.pc = "fetching",
                    !.now_iso = t,
                    !.previous_count = _count_episodes_for_query(episodes, q),
                    !.startFirstSeen =
                        {<<r.id, r.first_seen_at>> :
                            r \in {x \in episodes : x.query_id = q}},
                    !.startDurable = RowsOf(Tables, q)]]
    /\ nruns' = nruns + 1
    /\ UNCHANGED <<episodes, search_runs, queries, lastOk>>
    /\ UNCHANGED <<fvars, svars, cvars, qvars>>

\* a run started while no other call is in progress
RunStart(q) == NoRunInFlight /\ RunBegin(q)

\* a run started by another session of the application, which shares the
\* cached connection (opened with check_same_thread=False), while the run of
\* another query is in progress; one run per query at a time
RunStartInterleaved(q) ==
    /\ ~NoRunInFlight
    /\ run[q].pc \in {"idle", "done", "failed"}
    /\ RunBegin(q)

\* lines 394-407: all search pages, collected into simplified_items
Fetch(q) ==
    /\ run[q].pc = "fetching"
    /\ \E hits \in HitSeqs :
        run' = [run EXCEPT ![q].pc = "resolving", ![q].hits = hits]
    /\ UNCHANGED <<episodes, search_runs, queries, durable, clock, lastOk, nruns>>
    /\ UNCHANGED <<fvars, svars, cvars, qvars>>

\* line 410: all detail chunks for the candidate identifiers
FetchDetails(q) ==
    /\ run[q].pc = "resolving"
    /\ \E details \in DetailMaps(CandidateIds(run[q].hits)) :
        run' = [run EXCEPT ![q].pc = "processing",
                           ![q].details = details,
                           ![q].items = Resolve(run[q].hits, details),
                           ![q].idx = 1]
    /\ UNCHANGED <<episodes, search_runs, queries, durable, clock, lastOk, nruns>>
    /\ UNCHANGED <<fvars, svars, cvars, qvars>>

\* the provider's error surfaces while the items are being stored
FailPoint_late(r) ==
    \/ r.pc = "fetching"
    \/ r.pc = "resolving" /\ CandidateIds(r.hits) # {}
    \/ r.pc = "processing" /\ r.idx > 1

\* where search_episodes or get_episodes can raise: in the loop of lines
\* 398-407, or in the call of line 410, which sends no request for an empty
\* list
FailPoint(r) ==
    \/ r.pc = "fetching"
    \/ r.pc = "resolving" /\ CandidateIds(r.hits) # {}

\* SpotifyAuthError or SpotifyAPIError raised by search_episodes/get_episodes
FetchFail(q) ==
    /\ FailPoint(run[q])
    /\ \E e \in {"SpotifyAuthError", "SpotifyAPIError"} :
        run' = [run EXCEPT ![q] = Failed(run[q], e)]
    /\ UNCHANGED <<episodes, search_runs, queries, durable, clock, lastOk, nruns>>
    /\ UNCHANGED <<fvars, svars, cvars, qvars>>

\* a rejected item still refreshes the row it already has
ProcessItem_touch(q) ==
    LET r      == run[q]
        source == r.items[r.idx]
    IN  /\ r.pc = "processing"
        /\ r.idx <= Len(r.items)
        /\ IF ~HasId(source) THEN
                /\ run' = [run EXCEPT ![q].idx = r.idx + 1]
                /\ UNCHANGED episodes
           ELSE IF ~FilterAccepts(QueryFilters[q], Metadata(source)) THEN
                /\ run' = [run EXCEPT ![q].idx = r.idx + 1,
                                      ![q].skipped = r.skipped + 1]
                /\ episodes' =
                     {IF x.query_id = q /\ x.episode_id = source.id
                      THEN [x EXCEPT !.name = Metadata(source).name,
                                     !.last_seen_at = r.now_iso]
                      ELSE x : x \in episodes}
           ELSE LET u == Upsert(episodes, q, source.id,
                                Metadata(source).name, r.now_iso)
                IN  IF u.ok THEN
                        /\ episodes' = u.rows
                        /\ run' = [run EXCEPT
                              ![q].idx = r.idx + 1,
                              ![q].processed = r.processed + 1,
                              ![q].new_episodes =
                                  IF u.isNew THEN Append(@, source.id) ELSE @]
                    ELSE
                        /\ run' = [run EXCEPT ![q] = Failed(r, "IntegrityError")]
                        /\ UNCHANGED episodes
        /\ UNCHANGED <<search_runs, queries, durable, clock, lastOk, nruns>>
        /\ UNCHANGED <<fvars, svars, cvars, qvars>>

\* lines 412-589: one iteration of the loop over simplified_items
ProcessItem(q) ==
    LET r      == run[q]
        source == r.items[r.idx]
    IN  /\ r.pc = "processing"
        /\ r.idx <= Len(r.items)
        /\ IF ~HasId(source) THEN
                /\ run' = [run EXCEPT ![q].idx = r.idx + 1]
                /\ UNCHANGED episodes
           ELSE IF ~FilterAccepts(QueryFilters[q], Metadata(source)) THEN
                /\ run' = [run EXCEPT ![q].idx = r.idx + 1,
                                      ![q].skipped = r.skipped + 1]
                /\ UNCHANGED episodes
           ELSE LET u == Upsert(episodes, q, source.id,
                                Metadata(source).name, r.now_iso)
                IN  IF u.ok THEN
                        /\ episodes' = u.rows
                        /\ run' = [run EXCEPT
                              ![q].idx = r.idx + 1,
                              ![q].processed = r.processed + 1,
                              ![q].new_episodes =
                                  IF u.isNew THEN Append(@, source.id) ELSE @]
                    ELSE
                        /\ run' = [run EXCEPT ![q] = Failed(r, "IntegrityError")]
                        /\ UNCHANGED episodes
        /\ UNCHANGED <<search_runs, queries, durable, clock, lastOk, nruns>>
        /\ UNCHANGED <<fvars, svars, cvars, qvars>>

\* connection.execute raises sqlite3.Error (disk full, I/O error) on the
\* write of an accepted item; run_search has no handler and no rollback
WriteFail(q) ==
    LET r == run[q]
    IN  /\ r.pc = "processing"
        /\ r.idx <= Len(r.items)
        /\ HasId(r.items[r.idx])
        /\ FilterAccepts(QueryFilters[q], Metadata(r.items[r.idx]))
        /\ run' = [run EXCEPT ![q] = Failed(r, "sqlite3.Error")]
        /\ UNCHANGED <<episodes, search_runs, queries, durable, clock, lastOk, nruns>>
        /\ UNCHANGED <<fvars, svars, cvars, qvars>>

\* the run record reports every processed item as new
RunRecord_all_new(rows, q, r) ==
    [id |-> NextId(rows), query_id |-> q, run_at |-> r.now_iso,
     new_count |-> r.processed, total_results |-> r.processed]

\* INSERT INTO search_runs (query_id, run_at, new_count, total_results)
RunRecord(rows, q, r) ==
    [id |-> NextId(rows), query_id |-> q, run_at |-> r.now_iso,
     new_count |-> Len(r.new_episodes), total_results |-> r.processed]

\* lines 591-617: the run record, the query's timestamps, the commit, the
\* summary
RunFinish(q) ==
    LET r == run[q]
        runs2 == search_runs \cup {RunRecord(search_runs, q, r)}
        queries2 == [queries EXCEPT ![q].last_run = r.now_iso,
                                    ![q].updated_at = r.now_iso]
    IN  /\ r.pc = "processing"
        /\ r.idx > Len(r.items)
        /\ search_runs' = runs2
        /\ queries' = queries2
        /\ durable' = [episodes |-> episodes, search_runs |-> runs2,
                       queries |-> queries2]
        /\ run' = [run EXCEPT
              ![q].pc = "done",
              ![q].current_count = _count_episodes_for_query(episodes, q),
              ![q].startDurable = IdleRun.startDurable,
              ![q].repeat = (lastOk[q].ran /\ lastOk[q].items = r.items)]
        /\ lastOk' = [lastOk EXCEPT ![q] = [ran |-> TRUE, items |-> r.items]]
        /\ UNCHANGED <<episodes, clock, nruns>>
        /\ UNCHANGED <<fvars, svars, cvars, qvars>>

(***************************************************************************)
(* SpotifyClient: the token, the pagination loop of search_episodes and    *)
(* the chunk loop of get_episodes, one action per outcome of a loop        *)
(* iteration.  The provider holds sCatalog items, reports sTotal, and      *)
(* never returns more than the requested page size.  sLast is the traffic  *)
(* of the latest iteration: the requests sent, each with the offset (or    *)
(* chunk start) it carried and the status that answered it, and the token  *)
(* exchanges made.                                                         *)
(***************************************************************************)
HardLimit == 50
SafetyMargin == 30
ChunkSize == 50
MaxCatalog == 4
MaxTotal == 5
MaxPagesArg == 2
MaxRateLimited == 2
MaxTime == 30

NoCap == -1
LimitArgs == {0, 2, HardLimit + 1}
ExpiresIn == {30, 3600}
RetryAfter == {30}
Statuses == {200, 401, 429, 500}
NoTraffic == [reqs |-> <<>>, exch |-> <<>>]

\* limit = max(1, min(int(limit), 50))
ClampLimit(limit) == Max(1, Min(limit, HardLimit))

\* the condition of _ensure_token under which a token is requested
NeedToken_late == ~token \/ time > token_expires_at

NeedToken == ~token \/ time >= token_expires_at

\* _request_token on a 200 answer of the token endpoint
Exchanged(expires_in) ==
    [token |-> TRUE, expires_at |-> time + expires_in - SafetyMargin]

\* a failed exchange forgets the token held
FailedExchange_clears(tok) == [token |-> FALSE, expires_at |-> 0]

\* _request_token on a non-200 answer: the exception leaves before the
\* assignments of lines 59-61
FailedExchange(tok) == tok

\* the token after `token = self._ensure_token()` and, when the first answer
\* was 401, after the forced _request_token
TokenAfter(first401, e1, e2) ==
    IF first401 THEN Exchanged(e2)
    ELSE IF NeedToken THEN Exchanged(e1)
    ELSE [token |-> token, expires_at |-> token_expires_at]

Issued(first401) == IF first401 THEN 2 ELSE 1

\* the retry after a 401 starts again from the first page
Requests_restart(first401, final) ==
    IF first401
    THEN <<[at |-> offset, status |-> 401], [at |-> 0, status |-> final]>>
    ELSE <<[at |-> offset, status |-> final]>>

\* lines 89-113: params is built once per iteration and sent with the first
\* request and, after a 401, with the one retry
Requests(first401, final) ==
    IF first401
    THEN <<[at |-> offset, status |-> 401], [at |-> offset, status |-> final]>>
    ELSE <<[at |-> offset, status |-> final]>>

\* the successful exchanges of `self._request_token(); self._ensure_token()`
\* after a 401: a token that lives no longer than the margin is expired at
\* once and exchanged again
Forced(e2) == IF e2 <= SafetyMargin THEN <<"ok", "ok">> ELSE <<"ok">>

\* the successful token exchanges of one iteration of search_episodes
Exchanges(first401, e2) ==
    (IF NeedToken THEN <<"ok">> ELSE <<>>) \o
    (IF first401 THEN Forced(e2) ELSE <<>>)

FetchInit ==
    /\ \E l \in LimitArgs : sLimitArg = l /\ sLimit = ClampLimit(l)
    /\ sMaxPages \in {NoCap} \cup 0..MaxPagesArg
    /\ sTotal \in 0..MaxTotal
    /\ sCatalog \in 0..MaxCatalog
    /\ offset = 0
    /\ pages_retrieved = 0
    /\ yielded = <<>>
    /\ spc = "running"
    /\ sRequests = 0
    /\ sRateLimited = 0
    /\ sFull = TRUE
    /\ sLast = NoTraffic
    /\ token = FALSE
    /\ token_expires_at = 0
    /\ time = 0

\* the token endpoint answers with a non-200 status: SpotifyAuthError, in
\* _ensure_token, in the refresh that follows a 401, or in the _ensure_token
\* after that refresh
SearchAuthFail ==
    /\ spc = "running"
    /\ \/ /\ NeedToken
          /\ LET t == FailedExchange([token |-> token,
                                      expires_at |-> token_expires_at])
             IN  /\ token' = t.token
                 /\ token_expires_at' = t.expires_at
          /\ sLast' = [reqs |-> <<>>, exch |-> <<"failed">>]
          /\ UNCHANGED sRequests
       \/ \E e1 \in ExpiresIn :
            LET t == FailedExchange(TokenAfter(FALSE, e1, e1))
            IN  /\ sRequests' = sRequests + 1
                /\ token' = t.token
                /\ token_expires_at' = t.expires_at
                /\ sLast' = [reqs |-> <<[at |-> offset, status |-> 401]>>,
                             exch |-> Exchanges(FALSE, e1) \o <<"failed">>]
       \/ \E e2 \in ExpiresIn :
            LET t == FailedExchange(Exchanged(e2))
            IN  /\ e2 <= SafetyMargin
                /\ sRequests' = sRequests + 1
                /\ token' = t.token
                /\ token_expires_at' = t.expires_at
                /\ sLast' = [reqs |-> <<[at |-> offset, status |-> 401]>>,
                             exch |-> Exchanges(FALSE, e2) \o
                                      <<"ok", "failed">>]
    /\ spc' = "auth_error"
    /\ UNCHANGED <<sLimitArg, sLimit, sMaxPages, sTotal, sCatalog, offset,
                   pages_retrieved, yielded, sRateLimited, sFull, time>>
    /\ UNCHANGED <<fvars, dvars, cvars, qvars>>

\* the 429 branch consumes a page of the ceiling
SearchRateLimited_counts ==
    /\ spc = "running"
    /\ sRateLimited < MaxRateLimited
    /\ \E first401 \in BOOLEAN, e1 \in ExpiresIn, e2 \in ExpiresIn,
          retry_after \in RetryAfter :
        LET t == TokenAfter(first401, e1, e2)
        IN  /\ token' = t.token
            /\ token_expires_at' = t.expires_at
            /\ sRequests' = sRequests + Issued(first401)
            /\ sLast' = [reqs |-> Requests(first401, 429),
                         exch |-> Exchanges(first401, e2)]
            /\ time' = Min(time + retry_after, MaxTime)
    /\ sRateLimited' = sRateLimited + 1
    /\ pages_retrieved' = pages_retrieved + 1
    /\ UNCHANGED <<sLimitArg, sLimit, sMaxPages, sTotal, sCatalog, offset,
                   yielded, spc, sFull>>
    /\ UNCHANGED <<fvars, dvars, cvars, qvars>>

\* lines 115-118: status 429, sleep Retry-After seconds and `continue`
SearchRateLimited ==
    /\ spc = "running"
    /\ sRateLimited < MaxRateLimited
    /\ \E first401 \in BOOLEAN, e1 \in ExpiresIn, e2 \in ExpiresIn,
          retry_after \in RetryAfter :
        LET t == TokenAfter(first401, e1, e2)
        IN  /\ token' = t.token
            /\ token_expires_at' = t.expires_at
            /\ sRequests' = sRequests + Issued(first401)
            /\ sLast' = [reqs |-> Requests(first401, 429),
                         exch |-> Exchanges(first401, e2)]
            /\ time' = Min(time + retry_after, MaxTime)
    /\ sRateLimited' = sRateLimited + 1
    /\ UNCHANGED <<sLimitArg, sLimit, sMaxPages, sTotal, sCatalog, offset,
                   pages_retrieved, yielded, spc, sFull>>
    /\ UNCHANGED <<fvars, dvars, cvars, qvars>>

\* a status that is neither 200 nor 429 is answered by one more request
ApiErrorRequests_retried(first401, final) ==
    Requests(first401, final) \o <<[at |-> offset, status |-> final]>>

\* lines 98-123: the requests of an iteration that ends in SpotifyAPIError
ApiErrorRequests(first401, final) == Requests(first401, final)

\* lines 120-123: any other status than 200 (a second 401 included)
SearchApiError ==
    /\ spc = "running"
    /\ \E first401 \in BOOLEAN, e1 \in ExpiresIn, e2 \in ExpiresIn,
          final \in Statuses \ {200, 429} :
        LET t == TokenAfter(first401, e1, e2)
        IN  /\ final = 401 => first401
            /\ token' = t.token
            /\ token_expires_at' = t.expires_at
            /\ sRequests' = sRequests + Len(ApiErrorRequests(first401, final))
            /\ sLast' = [reqs |-> ApiErrorRequests(first401, final),
                         exch |-> Exchanges(first401, e2)]
    /\ spc' = "api_error"
    /\ UNCHANGED <<sLimitArg, sLimit, sMaxPages, sTotal, sCatalog, offset,
                   pages_retrieved, yielded, sRateLimited, sFull, time>>
    /\ UNCHANGED <<fvars, dvars, cvars, qvars>>

\* the page cap is tested with > instead of >=
PageDone_late(n) ==
    \/ n = 0
    \/ offset + n >= sTotal
    \/ (sMaxPages # NoCap /\ pages_retrieved + 1 > sMaxPages)

\* the total is tested with > instead of >=
PageDone_past_total(n) ==
    \/ n = 0
    \/ offset + n > sTotal
    \/ (sMaxPages # NoCap /\ pages_retrieved + 1 >= sMaxPages)

\* lines 125-143 after a 200 answer carrying n items: yield them, advance,
\* and test the three termination conditions
PageDone(n) ==
    \/ n = 0
    \/ offset + n >= sTotal
    \/ (sMaxPages # NoCap /\ pages_retrieved + 1 >= sMaxPages)

\* the page a provider that always returns full pages up to its total
\* answers at the current offset
FullPage == Min(sLimit, Max(sTotal - offset, 0))

Advance_by_limit(n) == offset + sLimit

\* offset += len(items)
Advance(n) == offset + n

SearchPageOk ==
    /\ spc = "running"
    /\ \E first401 \in BOOLEAN, e1 \in ExpiresIn, e2 \in ExpiresIn,
          n \in 0..Min(sLimit, Max(sCatalog - offset, 0)) :
        LET t == TokenAfter(first401, e1, e2)
        IN  /\ token' = t.token
            /\ token_expires_at' = t.expires_at
            /\ sRequests' = sRequests + Issued(first401)
            /\ sLast' = [reqs |-> Requests(first401, 200),
                         exch |-> Exchanges(first401, e2)]
            /\ yielded' = yielded \o [i \in 1..n |-> offset + i]
            /\ offset' = Advance(n)
            /\ pages_retrieved' = pages_retrieved + 1
            /\ sFull' = (sFull /\ n = FullPage)
            /\ spc' = IF PageDone(n) THEN "done" ELSE "running"
    /\ UNCHANGED <<sLimitArg, sLimit, sMaxPages, sTotal, sCatalog,
                   sRateLimited, time>>
    /\ UNCHANGED <<fvars, dvars, cvars, qvars>>

\* line 127: a 200 answer without an "episodes" object ends the loop
SearchNoEpisodes ==
    /\ spc = "running"
    /\ \E first401 \in BOOLEAN, e1 \in ExpiresIn, e2 \in ExpiresIn :
        LET t == TokenAfter(first401, e1, e2)
        IN  /\ token' = t.token
            /\ token_expires_at' = t.expires_at
            /\ sRequests' = sRequests + Issued(first401)
            /\ sLast' = [reqs |-> Requests(first401, 200),
                         exch |-> Exchanges(first401, e2)]
    /\ spc' = "done"
    /\ sFull' = FALSE
    /\ UNCHANGED <<sLimitArg, sLimit, sMaxPages, sTotal, sCatalog, offset,
                   pages_retrieved, yielded, sRateLimited, time>>
    /\ UNCHANGED <<fvars, dvars, cvars, qvars>>

\* time passes between two requests
TimePasses ==
    /\ spc = "running" \/ dpc = "running"
    /\ time < MaxTime
    /\ \E d \in RetryAfter : time' = Min(time + d, MaxTime)
    /\ UNCHANGED <<sLimitArg, sLimit, sMaxPages, sTotal, sCatalog, offset,
                   pages_retrieved, yielded, spc, sRequests, sRateLimited,
                   sFull, sLast, token, token_expires_at>>
    /\ UNCHANGED <<fvars, dvars, cvars, qvars>>

(***************************************************************************)
(* SpotifyClient.get_episodes: the identifiers that survive the blank      *)
(* filter of line 151 are 1..dIds; they are sent in chunks of ChunkSize,   *)
(* one action per outcome of a chunk.  s1 is the status of the first       *)
(* answer, s2 of the retry after a 401, s3 of the retry after a 429.       *)
(***************************************************************************)
IdCounts == {0, 1, ChunkSize, ChunkSize + 1, 2 * ChunkSize + 1}

\* what a client that has served earlier calls may hold at time 0
TokenStates ==
    {[token |-> FALSE, expires_at |-> 0]} \cup
    {[token |-> TRUE, expires_at |-> e - SafetyMargin] : e \in ExpiresIn}

Chunk_overlap == [i \in 1..Min(ChunkSize + 1, dIds - dStart) |-> dStart + i]

\* chunk = ids[start : start + 50]
Chunk == [i \in 1..Min(ChunkSize, dIds - dStart) |-> dStart + i]

\* the identifiers the provider answers with null: none, the first of the
\* chunk, or all of them
NullChoices == {{}, {dStart + 1}, {dStart + i : i \in 1..ChunkSize}}

\* [item for item in batch if item]
Batch(nulls) == SelectSeq(Chunk, LAMBDA x : x \notin nulls)

\* the response after lines 169-177
AfterAuth(s1, s2) == IF s1 = 401 THEN s2 ELSE s1

\* the response after lines 178-187: one retry after the sleep
FinalStatus(s1, s2, s3) ==
    IF AfterAuth(s1, s2) = 429 THEN s3 ELSE AfterAuth(s1, s2)

\* the requests of one chunk, all with the params of line 160
ChunkRequests(s1, s2, s3) ==
    <<[at |-> dStart, status |-> s1]>> \o
    (IF s1 = 401 THEN <<[at |-> dStart, status |-> s2]>> ELSE <<>>) \o
    (IF AfterAuth(s1, s2) = 429 THEN <<[at |-> dStart, status |-> s3]>>
     ELSE <<>>)

\* the client's token after the requests of one chunk
ChunkToken(s1, e2) ==
    IF s1 = 401 THEN Exchanged(e2)
    ELSE [token |-> token, expires_at |-> token_expires_at]

DetailIdle ==
    /\ dpc = "idle" /\ dIds = 0 /\ dStart = 0 /\ dResults = <<>>
    /\ dSent = <<>> /\ dNulls = {}

\* the chunk of the current iteration joins the chunks sent
Sent == Append(dSent, [from |-> Chunk[1], to |-> Chunk[Len(Chunk)]])

\* lines 151-156: no identifier, no request and no token
DetailBegin ==
    /\ dpc = "start"
    /\ IF dIds = 0
       THEN /\ dpc' = "done"
            /\ UNCHANGED <<token, token_expires_at, sLast>>
       ELSE \E e1 \in ExpiresIn :
              LET t == TokenAfter(FALSE, e1, e1)
              IN  /\ token' = t.token
                  /\ token_expires_at' = t.expires_at
                  /\ sLast' = [reqs |-> <<>>, exch |-> Exchanges(FALSE, e1)]
                  /\ dpc' = "running"
    /\ UNCHANGED <<dIds, dStart, dResults, dSent, dNulls, sRequests, time>>
    /\ UNCHANGED <<fvars, dvars, pvars, qvars>>

\* SpotifyAuthError: in the _ensure_token of line 156, in the refresh that
\* follows a 401, or in the _ensure_token after that refresh
DetailAuthFail ==
    /\ \/ /\ dpc = "start" /\ dIds > 0 /\ NeedToken
          /\ LET t == FailedExchange([token |-> token,
                                      expires_at |-> token_expires_at])
             IN  /\ token' = t.token
                 /\ token_expires_at' = t.expires_at
          /\ sLast' = [reqs |-> <<>>, exch |-> <<"failed">>]
          /\ UNCHANGED <<sRequests, dSent>>
       \/ /\ dpc = "running"
          /\ LET t == FailedExchange([token |-> token,
                                      expires_at |-> token_expires_at])
             IN  /\ token' = t.token
                 /\ token_expires_at' = t.expires_at
          /\ sRequests' = sRequests + 1
          /\ dSent' = Sent
          /\ sLast' = [reqs |-> <<[at |-> dStart, status |-> 401]>>,
                       exch |-> <<"failed">>]
       \/ /\ dpc = "running"
          /\ \E e2 \in ExpiresIn :
               LET t == FailedExchange(Exchanged(e2))
               IN  /\ e2 <= SafetyMargin
                   /\ token' = t.token
                   /\ token_expires_at' = t.expires_at
          /\ sRequests' = sRequests + 1
          /\ dSent' = Sent
          /\ sLast' = [reqs |-> <<[at |-> dStart, status |-> 401]>>,
                       exch |-> <<"ok", "failed">>]
    /\ dpc' = "auth_error"
    /\ UNCHANGED <<dIds, dStart, dResults, dNulls, time>>
    /\ UNCHANGED <<fvars, dvars, pvars, qvars>>

\* lines 158-197 when the last answer of the chunk is 200
DetailChunkOk ==
    /\ dpc = "running"
    /\ \E s1 \in Statuses, s2 \in Statuses, s3 \in Statuses,
          e2 \in ExpiresIn, retry_after \in RetryAfter,
          nulls \in NullChoices :
        LET t == ChunkToken(s1, e2)
        IN  /\ FinalStatus(s1, s2, s3) = 200
            /\ token' = t.token
            /\ token_expires_at' = t.expires_at
            /\ sRequests' = sRequests + Len(ChunkRequests(s1, s2, s3))
            /\ sLast' = [reqs |-> ChunkRequests(s1, s2, s3),
                         exch |-> IF s1 = 401 THEN Forced(e2) ELSE <<>>]
            /\ time' = IF AfterAuth(s1, s2) = 429
                       THEN Min(time + retry_after, MaxTime) ELSE time
            /\ dResults' = dResults \o Batch(nulls)
            /\ dNulls' = dNulls \cup {x \in nulls : x <= dIds}
    /\ dSent' = Sent
    /\ dStart' = dStart + ChunkSize
    /\ dpc' = IF dStart + ChunkSize >= dIds THEN "done" ELSE "running"
    /\ UNCHANGED dIds
    /\ UNCHANGED <<fvars, dvars, pvars, qvars>>

\* lines 189-192: the last answer of the chunk is not 200
DetailChunkError ==
    /\ dpc = "running"
    /\ \E s1 \in Statuses, s2 \in Statuses, s3 \in Statuses,
          e2 \in ExpiresIn, retry_after \in RetryAfter :
        LET t == ChunkToken(s1, e2)
        IN  /\ FinalStatus(s1, s2, s3) # 200
            /\ token' = t.token
            /\ token_expires_at' = t.expires_at
            /\ sRequests' = sRequests + Len(ChunkRequests(s1, s2, s3))
            /\ sLast' = [reqs |-> ChunkRequests(s1, s2, s3),
                         exch |-> IF s1 = 401 THEN Forced(e2) ELSE <<>>]
            /\ time' = IF AfterAuth(s1, s2) = 429
                       THEN Min(time + retry_after, MaxTime) ELSE time
    /\ dpc' = "api_error"
    /\ dSent' = Sent
    /\ UNCHANGED <<dIds, dStart, dResults, dNulls>>
    /\ UNCHANGED <<fvars, dvars, pvars, qvars>>

DetailInit ==
    /\ dpc = "start"
    /\ dIds \in IdCounts
    /\ dStart = 0
    /\ dResults = <<>>
    /\ dSent = <<>>
    /\ dNulls = {}
    /\ sRequests = 0
    /\ sLast = NoTraffic
    /\ \E t \in TokenStates : token = t.token /\ token_expires_at = t.expires_at
    /\ time = 0

(***************************************************************************)
(* Specifications                                                          *)
(***************************************************************************)
FilterIdle == fquery = NoPatterns /\ fresult = "none" /\
              fitem = MkItem(<<>>, <<>>, <<>>)

PagerIdle ==
    /\ sLimitArg = 1 /\ sLimit = 1 /\ sMaxPages = NoCap /\ sTotal = 0
    /\ sCatalog = 0 /\ offset = 0 /\ pages_retrieved = 0 /\ yielded = <<>>
    /\ spc = "idle" /\ sRateLimited = 0 /\ sFull = TRUE

FetchIdle ==
    /\ PagerIdle /\ DetailIdle
    /\ sRequests = 0 /\ sLast = NoTraffic /\ token = FALSE
    /\ token_expires_at = 0 /\ time = 0

Init == StoreInit /\ FilterIdle /\ FetchIdle /\ QueryInit

Next ==
    \/ ListQueries
    \/ \E q \in QueryIds : DeleteQuery(q)
    \/ \E q \in QueryIds : RunStart(q)
    \/ \E q \in QueryIds : Fetch(q)
    \/ \E q \in QueryIds : FetchDetails(q)
    \/ \E q \in QueryIds : FetchFail(q)
    \/ \E q \in QueryIds : ProcessItem(q)
    \/ \E q \in QueryIds : WriteFail(q)
    \/ \E q \in QueryIds : RunFinish(q)

Spec == Init /\ [][Next]_vars

\* the application with several sessions: runs of different queries
\* interleave on the one connection
ConcNext ==
    \/ ListQueries
    \/ \E q \in QueryIds : DeleteQuery(q)
    \/ \E q \in QueryIds : RunStart(q)
    \/ \E q \in QueryIds : RunStartInterleaved(q)
    \/ \E q \in QueryIds : Fetch(q)
    \/ \E q \in QueryIds : FetchDetails(q)
    \/ \E q \in QueryIds : FetchFail(q)
    \/ \E q \in QueryIds : ProcessItem(q)
    \/ \E q \in QueryIds : WriteFail(q)
    \/ \E q \in QueryIds : RunFinish(q)

ConcSpec == Init /\ [][ConcNext]_vars

FilterSpecInit == FilterInit /\ StoreInit /\ FetchIdle /\ QueryInit

FilterNext == AddPattern \/ Evaluate

FilterSpec == FilterSpecInit /\ [][FilterNext]_vars

\* a client serving one call: search_episodes or get_episodes
FetchSpecInit ==
    /\ (FetchInit /\ DetailIdle) \/ (DetailInit /\ PagerIdle)
    /\ StoreInit
    /\ FilterIdle
    /\ QueryInit

FetchNext ==
    \/ SearchAuthFail
    \/ SearchRateLimited
    \/ SearchApiError
    \/ SearchPageOk
    \/ SearchNoEpisodes
    \/ DetailBegin
    \/ DetailAuthFail
    \/ DetailChunkOk
    \/ DetailChunkError
    \/ TimePasses

FetchSpec == FetchSpecInit /\ [][FetchNext]_vars

\* the operations on one stored query definition
QuerySpecInit == QueryInit /\ StoreInit /\ FilterIdle /\ FetchIdle

QueryNext ==
    \/ create_search_query
    \/ GetQuery
    \/ list_search_queries
    \/ update_search_query

QuerySpec == QuerySpecInit /\ [][QueryNext]_vars

(***************************************************************************)
(* Properties of the store                                                 *)
(***************************************************************************)
SameKey(r1, r2) == r1.query_id = r2.query_id /\ r1.episode_id = r2.episode_id

\* C1: after any sequence of runs, with result sets that may repeat an
\* identifier, the episodes table holds at most one row per
\* (query_id, episode_id), in the connection's view and in the committed
\* store alike.
C1_OneRowPerKey ==
    /\ \A r1 \in episodes, r2 \in episodes : SameKey(r1, r2) => r1 = r2
    /\ \A r1 \in durable.episodes, r2 \in durable.episodes :
          SameKey(r1, r2) => r1 = r2

\* a finished run that accepted the same identifier twice and holds one row
C1_Witness ==
    \E q \in QueryIds :
        /\ run[q].pc = "done"
        /\ run[q].processed = 2
        /\ run[q].current_count = 1
        /\ Len(run[q].new_episodes) = 1

\* the items of a run that pass the filter of its query
AcceptedIds(q) ==
    {run[q].items[i].id : i \in {j \in 1..Len(run[q].items) :
        /\ run[q].items[j].id # NoId
        /\ FilterAccepts(QueryFilters[q], Metadata(run[q].items[j]))}}

RunRecordOf(q) ==
    CHOOSE r \in {x \in search_runs : x.query_id = q} :
        \A x \in search_runs : x.query_id = q => x.id <= r.id

\* C2: a successful run whose result set equals that of the query's previous
\* successful run reports no new episode (summary and run record), leaves
\* first_seen_at of every row the query had at its start unchanged, and sets
\* last_seen_at of every accepted item to its own timestamp.
C2_Idempotent ==
    \A q \in QueryIds :
        (run[q].pc = "done" /\ run[q].repeat /\ queries[q].present) =>
            /\ run[q].new_episodes = <<>>
            /\ RunRecordOf(q).new_count = 0
            /\ RunRecordOf(q).run_at = run[q].now_iso
            /\ \A s \in run[q].startFirstSeen :
                  \E r2 \in episodes :
                      r2.id = s[1] /\ r2.first_seen_at = s[2]
            /\ \A e \in AcceptedIds(q) :
                  \E r \in episodes :
                      /\ r.query_id = q /\ r.episode_id = e
                      /\ r.last_seen_at = run[q].now_iso

\* a repeated run, later than the first, that accepted something
C2_Witness ==
    \E q \in QueryIds :
        /\ run[q].pc = "done" /\ run[q].repeat
        /\ run[q].processed > 0
        /\ \E r \in episodes :
              r.query_id = q /\ r.first_seen_at < run[q].now_iso

\* C3: when a run has failed, the committed rows of its query (episodes, run
\* records, last_run/updated_at) are those committed when it started, as
\* long as the query is not deleted.
C3_FailedRunLeavesStore ==
    \A q \in QueryIds :
        (run[q].pc = "failed" /\ queries[q].present) =>
            RowsOf(durable, q) = run[q].startDurable

\* C4: no step changes first_seen_at or the key of an existing row; a step
\* changes at most name and last_seen_at of it, and a row is born with
\* first_seen_at = last_seen_at.
C4_FirstSeenWrittenOnce ==
    [][ /\ \A r \in episodes, r2 \in episodes' :
              r.id = r2.id =>
                  [r2 EXCEPT !.name = r.name, !.last_seen_at = r.last_seen_at] = r
        /\ \A r2 \in episodes' :
              (\A r \in episodes : r.id # r2.id) =>
                  r2.first_seen_at = r2.last_seen_at ]_vars

\* a row whose metadata and last_seen_at were refreshed by a later run
C4_Witness ==
    \E r \in episodes :
        /\ r.last_seen_at > r.first_seen_at
        /\ r.name = <<"a", "b">>

IsWrapped(p) == Len(p) >= 2 /\ p[1] = "/" /\ p[Len(p)] = "/"
BodyOf(p) == SubSeq(p, 2, Len(p) - 1)
IsBadRegex(p) == IsWrapped(p) /\ ~RegexCompiles(BodyOf(p))

\* one pattern against one field value, by the matcher the pattern compiles to
PatternMatches(field, p, value) ==
    IF IsWrapped(p) /\ RegexCompiles(BodyOf(p)) THEN RegexSearch(BodyOf(p), value)
    ELSE IF \E i \in 1..Len(p) : p[i] \in {"*", "?", "["}
    THEN fnmatch(Lower(value), Lower(p))
    ELSE IF field = "show" THEN Lower(value) = Lower(p)
    ELSE Contains(Lower(value), Lower(p))

AnyMatch(field, list, value) ==
    \E i \in 1..Len(list) : PatternMatches(field, list[i], value)

ExcludeHit(q, item) ==
    \/ AnyMatch("show", q.exclude_shows, item.show_name)
    \/ AnyMatch("text", q.exclude_title_keywords, item.name)
    \/ AnyMatch("text", q.exclude_description_keywords, item.description)

IncludeMiss(q, item) ==
    \/ q.include_shows # <<>> /\ ~AnyMatch("show", q.include_shows, item.show_name)
    \/ q.include_title_keywords # <<>>
          /\ ~AnyMatch("text", q.include_title_keywords, item.name)
    \/ q.include_description_keywords # <<>>
          /\ ~AnyMatch("text", q.include_description_keywords, item.description)

NoIncludes(q) ==
    /\ q.include_shows = <<>>
    /\ q.include_title_keywords = <<>>
    /\ q.include_description_keywords = <<>>

\* C6: an item is accepted exactly when no exclude matcher matches it and
\* every include category that has a pattern has a matcher that matches it;
\* with all six lists empty every item is accepted.
C6_AcceptIff ==
    fresult # "none" =>
        /\ (fresult = "accepted") <=>
              (~ExcludeHit(fquery, fitem) /\ ~IncludeMiss(fquery, fitem))
        /\ fquery = NoPatterns => fresult = "accepted"

\* an accepted item under a configuration with excludes and includes
C6_Witness ==
    /\ fresult = "accepted"
    /\ ~NoIncludes(fquery)
    /\ fquery.exclude_shows # <<>> \/ fquery.exclude_title_keywords # <<>>
          \/ fquery.exclude_description_keywords # <<>>

\* C7: an item matched by an exclude pattern is rejected whatever the
\* include lists contain.
C7_ExcludeVetoes ==
    (fresult # "none" /\ ExcludeHit(fquery, fitem)) => fresult = "skipped"

\* rejected by an exclude pattern although every include category that is
\* configured matches
C7_Witness ==
    /\ fresult = "skipped"
    /\ ExcludeHit(fquery, fitem)
    /\ ~NoIncludes(fquery)
    /\ ~IncludeMiss(fquery, fitem)

\* C8: an item that matches no pattern of a non-empty include category is
\* rejected even when no exclude pattern matches it.
C8_IncludeRequired ==
    (fresult # "none" /\ IncludeMiss(fquery, fitem)) => fresult = "skipped"

\* rejected for a missing include match alone
C8_Witness ==
    /\ fresult = "skipped"
    /\ IncludeMiss(fquery, fitem)
    /\ ~ExcludeHit(fquery, fitem)

OnlyBadRegex(list) == \A i \in 1..Len(list) : IsBadRegex(list[i])

\* C9: a /body/ pattern whose body does not compile matches nothing: when
\* the exclude lists hold only such patterns and nothing is required by an
\* include list, every item is accepted.
C9_BadRegexInert ==
    ( /\ fresult # "none"
      /\ NoIncludes(fquery)
      /\ OnlyBadRegex(fquery.exclude_shows)
      /\ OnlyBadRegex(fquery.exclude_title_keywords)
      /\ OnlyBadRegex(fquery.exclude_description_keywords) )
    => fresult = "accepted"

Positions(n) == [i \in 1..n |-> i]

\* C11: without a page cap, against a provider that reports total T and has
\* answered every request so far with the full page up to T, the fetcher has
\* yielded the positions 1..offset in order, after k pages offset is
\* min(k * limit, T), it is finished exactly when a page has been fetched and
\* offset has reached T, so that it ends with exactly T items and sends no
\* request after that.
C11_FullPagesYieldTotal ==
    (sMaxPages = NoCap /\ sFull /\ spc \in {"running", "done"}) =>
        /\ yielded = Positions(offset)
        /\ offset = Min(pages_retrieved * sLimit, sTotal)
        /\ spc = "done" =>
              (pages_retrieved >= 1 /\ yielded = Positions(sTotal))
        /\ spc = "running" => (pages_retrieved = 0 \/ offset < sTotal)

\* three items fetched in two full pages
C11_Witness ==
    /\ spc = "done" /\ sFull /\ sMaxPages = NoCap
    /\ sTotal = 3 /\ sLimit = 2 /\ pages_retrieved = 2
    /\ yielded = <<1, 2, 3>>

\* C12: an iteration answered by 429 sleeps Retry-After seconds and changes
\* neither offset, page count nor the items yielded and keeps the fetcher
\* running; every request of a later iteration carries the current offset;
\* and whatever the number of 429 answers, the items yielded are the
\* provider positions 1..offset, none lost and none twice.
C12_RateLimitKeepsPosition ==
    /\ [][ /\ (spc = "running" /\ sRateLimited' # sRateLimited) =>
              ( /\ offset' = offset
                /\ pages_retrieved' = pages_retrieved
                /\ yielded' = yielded
                /\ spc' = "running"
                /\ sLast'.reqs[Len(sLast'.reqs)].status = 429
                /\ (\E d \in RetryAfter : time' = Min(time + d, MaxTime)) )
           /\ (spc = "running" /\ sRequests' # sRequests) =>
                \A i \in 1..Len(sLast'.reqs) : sLast'.reqs[i].at = offset
          ]_vars
    /\ [](spc # "idle" => yielded = Positions(offset))

\* two 429 answers on the way, a cap of two pages, and both pages yielded
C12_Witness ==
    /\ spc = "done" /\ sRateLimited >= 2
    /\ sMaxPages = 2 /\ pages_retrieved = 2 /\ sLimit = 2
    /\ yielded = <<1, 2, 3, 4>>

\* the status of the last request of the latest iteration
LastStatus == sLast.reqs[Len(sLast.reqs)].status

\* C13: get_episodes never surfaces rate limiting: it does not end in
\* SpotifyAPIError on a request answered by 429.
C13_DetailRateLimitHidden ==
    (dpc = "api_error") => LastStatus # 429

AuthError == spc = "auth_error" \/ dpc = "auth_error"
ApiError == spc = "api_error" \/ dpc = "api_error"

\* the offset (search) or chunk start (detail) of the iteration in progress
Position == IF spc = "running" THEN offset ELSE dStart

\* C14: in an iteration whose first answer is 401 and whose forced token
\* exchange succeeds, the client holds a fresh token and sends the request
\* once more with the same offset or chunk start; a second 401 is not
\* retried; search sends nothing else in the iteration and detail only the
\* retry after a 429.  When the retry is answered by 200 the call does not
\* fail and goes on from where it was: the page or chunk is delivered and
\* offset, page count and chunk start never fall back.
C14_UnauthorizedRetriedOnce ==
    [][ (sRequests' # sRequests /\ sLast'.reqs[1].status = 401) =>
          LET reqs == sLast'.reqs
              exch == sLast'.exch
          IN  /\ reqs[1].at = Position
              /\ IF exch # <<>> /\ exch[Len(exch)] = "failed"
                 THEN Len(reqs) = 1 /\ AuthError'
                 ELSE /\ Len(reqs) >= 2
                      /\ reqs[2].at = Position
                      /\ exch # <<>>
                      /\ token'
                      /\ (\E e \in ExpiresIn :
                            token_expires_at' = time + e - SafetyMargin)
                      /\ Len(reqs) = (IF spc # "running" /\ reqs[2].status = 429
                                      THEN 3 ELSE 2)
                      /\ (reqs[2].status = 401 => ApiError')
                      /\ (reqs[2].status = 200 =>
                            /\ ~AuthError' /\ ~ApiError'
                            /\ spc = "running" =>
                                  /\ offset' >= offset
                                  /\ pages_retrieved' >= pages_retrieved
                                  /\ yielded' = Positions(offset')
                                  /\ SubSeq(yielded', 1, offset) = yielded
                            /\ dpc = "running" =>
                                  /\ dStart' = dStart + ChunkSize
                                  /\ SubSeq(dResults', 1, Len(dResults))
                                        = dResults)
      ]_vars

\* the second page was answered by 401 and, on the retry, by 200
C14_Witness ==
    /\ spc = "done"
    /\ sLast.reqs = <<[at |-> 2, status |-> 401], [at |-> 2, status |-> 200]>>
    /\ yielded = <<1, 2, 3, 4>>

\* the statuses that are neither success nor 429 nor 401
FatalStatuses == Statuses \ {200, 401, 429}

\* C15: a request answered by a status other than 200, 429 and 401 is the
\* last request of its call: the call ends in SpotifyAPIError in that very
\* step without touching the store, and once a call has ended in
\* SpotifyAPIError no step sends a request, yields an item or writes.
C15_ApiErrorIsFatal ==
    [][ /\ (sRequests' # sRequests /\
              \E i \in 1..Len(sLast'.reqs) :
                  sLast'.reqs[i].status \in FatalStatuses) =>
                /\ sLast'.reqs[Len(sLast'.reqs)].status \in FatalStatuses
                /\ \A i \in 1..(Len(sLast'.reqs) - 1) :
                      sLast'.reqs[i].status \notin FatalStatuses
                /\ \A i \in 1..Len(sLast'.reqs) :
                      sLast'.reqs[i].at = Position
                /\ ApiError'
                /\ yielded' = yielded /\ dResults' = dResults
                /\ Tables' = Tables /\ durable' = durable
        /\ ApiError =>
                /\ sRequests' = sRequests /\ yielded' = yielded
                /\ dResults' = dResults
                /\ spc' = spc /\ dpc' = dpc
                /\ Tables' = Tables /\ durable' = durable
      ]_vars

\* the search failed on its second page, after a 401 and its retry
C15_Witness ==
    /\ spc = "api_error"
    /\ offset = 2
    /\ sLast.reqs = <<[at |-> 2, status |-> 401], [at |-> 2, status |-> 500]>>

\* C16: a call ends in SpotifyAuthError in the step in which a token
\* exchange fails; that exchange is the last one made and the only one
\* that failed; the stored token and expiry are those held before it (the
\* ones stored by the successful exchange of the same iteration, when there
\* was one, and else those the step started with); and no step follows on
\* a call that ended in SpotifyAuthError.
C16_FailedExchangeIsFatal ==
    [][ /\ (sLast'.exch # <<>> /\ sLast'.exch[Len(sLast'.exch)] = "failed"
             /\ ~AuthError) =>
                /\ AuthError'
                /\ \A i \in 1..(Len(sLast'.exch) - 1) : sLast'.exch[i] = "ok"
                /\ IF Len(sLast'.exch) = 1
                   THEN token' = token /\ token_expires_at' = token_expires_at
                   ELSE /\ token'
                        /\ \E e \in ExpiresIn :
                              token_expires_at' = time + e - SafetyMargin
        /\ (AuthError' /\ ~AuthError) =>
                (sLast'.exch # <<>> /\ sLast'.exch[Len(sLast'.exch)] = "failed")
        /\ AuthError =>
                (UNCHANGED <<sRequests, sLast, token, token_expires_at>>
                 /\ spc' = spc /\ dpc' = dpc)
      ]_vars

\* a held but expired token that survived the failed exchange
C16_Witness ==
    /\ spc = "auth_error"
    /\ sLast.exch = <<"failed">>
    /\ token /\ time >= token_expires_at
    /\ offset > 0

(***************************************************************************)
(* Properties of deletion, interleaving and the run record                 *)
(***************************************************************************)
\* C17: the step that deletes query q removes exactly the episodes and run
\* records of q, leaves every other query's rows and fields as they are and
\* is committed as it happens; and whenever a query is deleted, no episodes
\* or search_runs row refers to it, neither in the connection's view nor in
\* the committed store.
C17_DeleteCascades ==
    /\ [][ \A q \in QueryIds :
              (queries[q].present /\ ~queries'[q].present) =>
                  /\ episodes' = {r \in episodes : r.query_id # q}
                  /\ search_runs' = {r \in search_runs : r.query_id # q}
                  /\ \A p \in QueryIds \ {q} : queries'[p] = queries[p]
                  /\ durable' = Tables'
          ]_vars
    /\ [](\A q \in QueryIds :
             ~queries[q].present =>
                 /\ RowsOf(Tables, q).episodes = {}
                 /\ RowsOf(Tables, q).search_runs = {}
                 /\ RowsOf(durable, q).episodes = {}
                 /\ RowsOf(durable, q).search_runs = {})

\* a query that had been run is deleted while the other keeps its rows
C17_Witness ==
    \E q \in QueryIds, p \in QueryIds :
        /\ ~queries[q].present
        /\ run[q].pc = "done" /\ run[q].processed > 0
        /\ queries[p].present
        /\ RowsOf(durable, p).episodes # {}
        /\ RowsOf(durable, p).search_runs # {}

\* C18: a run that is in flight is isolated from the runs of other queries:
\* as in a sequential execution, the committed rows of its query (episodes,
\* run records, last_run/updated_at) stay those committed when it started
\* until it finishes, so that its failure leaves nothing behind.
C18_InterleavedRunsIsolated ==
    \A q \in QueryIds :
        run[q].pc \in {"fetching", "resolving", "processing"} =>
            RowsOf(durable, q) = run[q].startDurable

C20_RejectedItemNotWritten ==
    [][ \A q \in QueryIds :
          LET r == run[q]
          IN  (/\ r.pc = "processing"
               /\ r.idx <= Len(r.items)
               /\ run'[q].idx = r.idx + 1
               /\ r.items[r.idx].id # NoId
               /\ \/ ExcludeHit(QueryFilters[q], Metadata(r.items[r.idx]))
                  \/ IncludeMiss(QueryFilters[q], Metadata(r.items[r.idx]))) =>
                  /\ episodes' = episodes
                  /\ search_runs' = search_runs
                  /\ queries' = queries
                  /\ durable' = durable
                  /\ run'[q].skipped = r.skipped + 1
                  /\ run'[q].processed = r.processed
                  /\ run'[q].new_episodes = r.new_episodes
      ]_vars

\* a run has rejected an item for which an earlier run stored a row under
\* another title, and the row still is as that run left it
C20_Witness ==
    \E q \in QueryIds :
        \E i \in 1..Len(run[q].items) :
            /\ i < run[q].idx
            /\ run[q].items[i].id # NoId
            /\ ExcludeHit(QueryFilters[q], Metadata(run[q].items[i]))
            /\ run[q].skipped >= 1
            /\ \E x \in episodes :
                  /\ x.query_id = q
                  /\ x.episode_id = run[q].items[i].id
                  /\ x.name # run[q].items[i].name
                  /\ x.last_seen_at < run[q].now_iso

(***************************************************************************)
(* Properties of stored query definitions                                  *)
(***************************************************************************)
IsTrimmed(s) == s # <<>> /\ Strip(s) = s

\* C21: every operation that reads a stored query definition back
\* (create, get, list, update) returns a query that carries all six pattern
\* lists, each a list of trimmed, non-empty strings.
C21_ReadBackCarriesLists ==
    (qread.op # "none" /\ qrow.present) =>
        /\ qread.status = "ok"
        /\ \A c \in Categories :
              \A i \in 1..Len(qread.lists[c]) : IsTrimmed(qread.lists[c][i])

(***************************************************************************)
(* Properties of pattern compilation                                       *)
(***************************************************************************)
IsLiteral(p) == ~IsWrapped(p) /\ ~(\E i \in 1..Len(p) : p[i] \in {"*", "?", "["})

\* the strategy the stated priority order gives a trimmed pattern
StatedStrategy(p) ==
    IF IsWrapped(p) THEN "regex"
    ELSE IF IsLiteral(p) THEN "literal"
    ELSE "glob"

\* the collections of a compiled list that a trimmed pattern contributes to
StrategiesOf(p, compiled) ==
    (IF IsWrapped(p) /\ BodyOf(p) \in compiled.regexes THEN {"regex"} ELSE {})
    \cup (IF Lower(p) \in compiled.globs THEN {"glob"} ELSE {})
    \cup (IF Lower(p) \in compiled.exact THEN {"literal"} ELSE {})

\* C22: every pattern of every list is compiled into exactly one strategy:
\* regex when it is wrapped as /body/, otherwise glob when it contains one
\* of * ? [, otherwise literal.
C22_OneStrategyByPriority ==
    \A c \in Categories :
        \A i \in 1..Len(fquery[c]) :
            LET p == Strip(fquery[c][i])
            IN  p # <<>> =>
                  StrategiesOf(p, CompileList(fquery[c])) = {StatedStrategy(p)}

TheOnlyPattern(q, c) == TotalPatterns(q) = 1 /\ Len(q[c]) = 1 /\ IsLiteral(q[c][1])

ShowEquals(item, p) == Lower(item.show_name) = Lower(p)

TextHolds(value, p) == Contains(Lower(value), Lower(p))

\* C23: a literal pattern matches a show name only when it equals the whole
\* name and matches a title or a description when it occurs anywhere in it,
\* always without regard to case, in exclude lists (the item is skipped
\* exactly on a match) and in include lists (accepted exactly on a match).
C23_LiteralByField ==
    fresult # "none" =>
        /\ TheOnlyPattern(fquery, "exclude_shows") =>
             (fresult = "skipped" <=> ShowEquals(fitem, fquery.exclude_shows[1]))
        /\ TheOnlyPattern(fquery, "exclude_title_keywords") =>
             (fresult = "skipped" <=>
                 TextHolds(fitem.name, fquery.exclude_title_keywords[1]))
        /\ TheOnlyPattern(fquery, "exclude_description_keywords") =>
             (fresult = "skipped" <=>
                 TextHolds(fitem.description,
                           fquery.exclude_description_keywords[1]))
        /\ TheOnlyPattern(fquery, "include_shows") =>
             (fresult = "accepted" <=> ShowEquals(fitem, fquery.include_shows[1]))
        /\ TheOnlyPattern(fquery, "include_title_keywords") =>
             (fresult = "accepted" <=>
                 TextHolds(fitem.name, fquery.include_title_keywords[1]))
        /\ TheOnlyPattern(fquery, "include_description_keywords") =>
             (fresult = "accepted" <=>
                 TextHolds(fitem.description,
                           fquery.include_description_keywords[1]))

\* a show name that contains the literal pattern without being equal to it
\* is not a match, a title that contains it is
C23_Witness ==
    /\ fresult = "skipped"
    /\ TheOnlyPattern(fquery, "include_shows")
    /\ TextHolds(fitem.show_name, fquery.include_shows[1])
    /\ ~ShowEquals(fitem, fquery.include_shows[1])

(***************************************************************************)
(* Properties of the token manager                                         *)
(***************************************************************************)
\* a step that starts with a credential request: an iteration of
\* search_episodes, or the start of get_episodes for at least one identifier
CredentialStep ==
    \/ /\ spc = "running"
       /\ sRequests' # sRequests \/ spc' # spc
    \/ dpc = "start" /\ dIds > 0 /\ dpc' # dpc

Saw401 == \E i \in 1..Len(sLast'.reqs) : sLast'.reqs[i].status = 401

MustExchange == ~token \/ time >= token_expires_at

\* C24: a credential request exchanges a token exactly when none is held or
\* the time has reached the stored expiry (any further exchange of the step
\* is the refresh forced by a 401); without an exchange the held token is
\* kept as it is; an exchange stores the nominal expiry shortened by 30
\* seconds; and unless the step ends in an authorization error, a token is
\* held after it.
C24_TokenLifecycle ==
    [][ CredentialStep =>
          /\ ~Saw401 => Len(sLast'.exch) = (IF MustExchange THEN 1 ELSE 0)
          /\ Saw401 => Len(sLast'.exch) > (IF MustExchange THEN 1 ELSE 0)
          /\ (~MustExchange /\ ~Saw401) =>
                (token' = token /\ token_expires_at' = token_expires_at)
          /\ (MustExchange /\ ~Saw401 /\ sLast'.exch = <<"ok">>) =>
                \E e \in ExpiresIn : token_expires_at' = time + e - 30
          /\ (spc' # "auth_error" /\ dpc' # "auth_error") => token'
      ]_vars

\* a second page whose credential request found the token expired and
\* exchanged it before the one request of the iteration
C24_Witness ==
    /\ pages_retrieved >= 2
    /\ token
    /\ sLast.reqs = <<[at |-> offset - 1, status |-> 200]>>
    /\ sLast.exch = <<"ok">>

(***************************************************************************)
(* Properties of the order of requests                                     *)
(***************************************************************************)
AllAt(reqs, position) == \A i \in 1..Len(reqs) : reqs[i].at = position

\* C25: requests go out one after the other.  Every request a step sends is
\* answered within the step (the requests counted are the answered requests
\* of the step's record); the requests of a search iteration all ask for the
\* current offset, which never decreases and moves on by the number of items
\* received; the requests of a detail step all ask for the current chunk,
\* and the next chunk starts where this one ends.
C25_OneRequestAtATime ==
    [][ /\ sRequests' # sRequests =>
             sRequests' - sRequests = Len(sLast'.reqs)
        /\ (spc = "running" /\ sRequests' # sRequests) =>
             /\ AllAt(sLast'.reqs, offset)
             /\ offset' >= offset
             /\ offset' = offset + (Len(yielded') - Len(yielded))
        /\ (dpc = "running" /\ sRequests' # sRequests) =>
             /\ AllAt(sLast'.reqs, dStart)
             /\ dStart' \in {dStart, dStart + 50}
             /\ dStart' # dStart <=> dpc' \in {"running", "done"}
      ]_vars

\* a second page asked for at the offset the first page left, after a first
\* page that was shorter than the page size
C25_Witness ==
    /\ pages_retrieved >= 2
    /\ Len(sLast.reqs) >= 1
    /\ sLast.reqs[1].at > 0
    /\ sLast.reqs[1].at < sLimit
    /\ offset = Len(yielded)

(***************************************************************************)
(* Properties of the batch detail fetcher                                  *)
(***************************************************************************)
Covered == IF dSent = <<>> THEN 0 ELSE dSent[Len(dSent)].to

\* C26: the chunks sent are consecutive runs of at most 50 identifiers that
\* start at the first one, so no identifier is in two chunks; when the call
\* returns every identifier has been sent; and the results are, in order,
\* the identifiers of the chunks answered so far that the provider did not
\* answer with null.
C26_ChunksCoverOnce ==
    /\ \A i \in 1..Len(dSent) :
          /\ dSent[i].from = (IF i = 1 THEN 1 ELSE dSent[i - 1].to + 1)
          /\ dSent[i].to >= dSent[i].from
          /\ dSent[i].to - dSent[i].from < 50
          /\ dSent[i].to <= dIds
    /\ dpc = "done" => Covered = dIds
    /\ dpc \in {"running", "done"} =>
          dResults = SelectSeq([i \in 1..Covered |-> i],
                               LAMBDA x : x \notin dNulls)

\* three chunks for 101 identifiers, one of them answered with null
C26_Witness ==
    /\ dpc = "done"
    /\ Len(dSent) = 3
    /\ dNulls # {}
    /\ dResults # <<>>

(***************************************************************************)
(* Properties of one run of run_search                                     *)
(***************************************************************************)
Running(q) == run[q].pc \in {"processing", "done"}

\* the object a hit is filtered and stored as
Preferred(hit, details) ==
    IF hit.id # NoId /\ details[hit.id] # NoDetail
    THEN [id |-> hit.id, name |-> details[hit.id]]
    ELSE hit

NameOrEmpty(source) == IF source.name = NoName THEN <<>> ELSE source.name

RowsFor(rows, q) == {x \in rows : x.query_id = q}

\* the step of q's run that handles the hit at its current position
Handles(q) ==
    /\ run[q].pc = "processing"
    /\ run[q].idx <= Len(run[q].hits)
    /\ run'[q].pc = "processing"
    /\ run'[q].idx # run[q].idx

DistinctHits(hits) ==
    /\ \A i \in 1..Len(hits) : hits[i].id # NoId
    /\ \A i \in 1..Len(hits), j \in 1..Len(hits) :
          hits[i].id = hits[j].id => i = j

\* a run of a query without filters on a store that holds nothing for it
Baseline(q) ==
    /\ QueryFilters[q] = NoPatterns
    /\ run[q].startFirstSeen = {}
    /\ DistinctHits(run[q].hits)

\* C28: the summary of a successful run reports
\* current_count = previous_count + size of new_episodes, with at most as
\* many new episodes as processed items; a baseline run over n distinct hits
\* reports previous 0, processed n, skipped 0, n new episodes and count n.
C28_SummaryCounts ==
    \A q \in QueryIds :
        run[q].pc = "done" =>
            /\ run[q].current_count =
                   run[q].previous_count + Len(run[q].new_episodes)
            /\ Len(run[q].new_episodes) <= run[q].processed
            /\ Baseline(q) =>
                  /\ run[q].previous_count = 0
                  /\ run[q].processed = Len(run[q].hits)
                  /\ run[q].skipped = 0
                  /\ Len(run[q].new_episodes) = Len(run[q].hits)
                  /\ run[q].current_count = Len(run[q].hits)

\* a baseline run over two hits, finished while the other query has rows
C28_Witness ==
    \E q \in QueryIds :
        /\ run[q].pc = "done"
        /\ Baseline(q)
        /\ Len(run[q].hits) = 2
        /\ run[q].current_count = 2
        /\ \E x \in episodes : x.query_id # q

\* the hits with an identifier among the first n
WithId(hits, n) == {i \in 1..Len(hits) : i <= n /\ hits[i].id # NoId}

\* C29: at every point of a run processed + skipped is the number of hits
\* with an identifier handled so far, hence of all such hits when the run
\* is done; the step that handles a hit without identifier changes neither
\* counter, no list of new episodes and no table.
C29_EveryHitCountedOnce ==
    /\ [](\A q \in QueryIds :
            Running(q) =>
               run[q].processed + run[q].skipped =
                   Cardinality(WithId(run[q].hits, run[q].idx - 1)))
    /\ [][ \A q \in QueryIds :
             (Handles(q) /\ run[q].hits[run[q].idx].id = NoId) =>
                /\ run'[q].processed = run[q].processed
                /\ run'[q].skipped = run[q].skipped
                /\ run'[q].new_episodes = run[q].new_episodes
                /\ UNCHANGED <<episodes, search_runs, queries>>
         ]_vars

\* a finished run whose hits held one without identifier besides counted ones
C29_Witness ==
    \E q \in QueryIds :
        /\ run[q].pc = "done"
        /\ \E i \in 1..Len(run[q].hits) : run[q].hits[i].id = NoId
        /\ run[q].processed + run[q].skipped = Len(run[q].hits) - 1
        /\ run[q].processed + run[q].skipped >= 1

ProviderErrors == {"SpotifyAuthError", "SpotifyAPIError"}

\* C30: a run goes through its search phase, then its detail phase, then
\* its writes, and never back: the detail phase is entered from the search
\* phase only, the writing phase from the detail phase only, hits and detail
\* records are fixed once writing has begun, and an episode row of the
\* query changes only in the writing phase.  While a run searches or
\* resolves, and after it failed with an authentication or API error, the
\* episode rows of its query are those committed when it started.
C30_FetchBeforeWrite ==
    /\ [](\A q \in QueryIds :
            ( \/ run[q].pc \in {"fetching", "resolving"}
              \/ /\ run[q].pc = "failed"
                 /\ run[q].error \in ProviderErrors
                 /\ queries[q].present ) =>
               RowsFor(episodes, q) = run[q].startDurable.episodes)
    /\ [][ \A q \in QueryIds :
             /\ (run'[q].pc = "resolving" /\ run[q].pc # "resolving") =>
                   run[q].pc = "fetching"
             /\ (run'[q].pc = "processing" /\ run[q].pc # "processing") =>
                   run[q].pc = "resolving"
             /\ (run[q].pc = "processing" /\ run'[q].pc = "processing") =>
                   /\ run'[q].hits = run[q].hits
                   /\ run'[q].details = run[q].details
             /\ (RowsFor(episodes', q) # RowsFor(episodes, q)
                    /\ queries'[q].present) =>
                   run[q].pc = "processing"
         ]_vars

\* a run failed in its detail phase or search phase with a provider error
\* on a store that already held rows of its query
C30_Witness ==
    \E q \in QueryIds :
        /\ run[q].pc = "failed"
        /\ run[q].error \in ProviderErrors
        /\ run[q].startDurable.episodes # {}
        /\ RowsFor(episodes, q) = run[q].startDurable.episodes

====
